---- MODULE Spec2Model ----
(***************************************************************************)
(* HealthGrid webhook ingestion and triage conversation state machine.     *)
(*                                                                         *)
(* The model follows WebhookHandler.processWebhook / processUserMessage,   *)
(* SessionManager (MySQL variant), MySQLService session methods,           *)
(* ChatService dedup queries and ConversationFlowManager.                  *)
(*                                                                         *)
(* Every await on the store is one step of a delivery, so deliveries of    *)
(* the same user interleave exactly at the store operations.               *)
(*                                                                         *)
(* Text is a sequence of words; String.includes(keyword) is containment of *)
(* the keyword's words as a contiguous run (word granularity).             *)
(***************************************************************************)
EXTENDS Integers, Sequences, FiniteSets, Bags, TLC

\* ---------------------------------------------------------------- bounds
MaxDeliveries == 2
\* failing store or channel steps in one behaviour
MaxFailures == 1
\* ai-chat requests of the web chat under observation
MaxChats == 2

Procs == {1, 2}
Ids == {1, 2}
NoId == 0
None == "none"
Phone == "2348012345678"
BadPhone == "0123"

\* ---------------------------------------------------------------- stages
INITIAL == "INITIAL"
LANGUAGE_SELECTION == "LANGUAGE_SELECTION"
COLLECTING_DEMOGRAPHICS == "COLLECTING_DEMOGRAPHICS"
COLLECTING_SYMPTOMS == "COLLECTING_SYMPTOMS"
ASSESSING_SEVERITY == "ASSESSING_SEVERITY"
EMERGENCY_DETECTED == "EMERGENCY_DETECTED"
PROVIDER_MATCHING == "PROVIDER_MATCHING"
APPOINTMENT_BOOKING == "APPOINTMENT_BOOKING"
COMPLETED == "COMPLETED"

\* ---------------------------------------------------------------- text
\* String.toLowerCase on one word
LowerWord(w) ==
  CASE w = "I" -> "i"
    [] w = "Headache" -> "headache"
    [] w = "EMERGENCY" -> "emergency"
    [] w = "Bleeding" -> "bleeding"
    [] w = "Yoruba" -> "yoruba"
    [] OTHER -> w

ToLowerCase(text) == [i \in 1..Len(text) |-> LowerWord(text[i])]

\* String.includes
Includes(text, kw) ==
  \E i \in 1..(Len(text) - Len(kw) + 1) : SubSeq(text, i, i + Len(kw) - 1) = kw

\* index of the first keyword the text includes, 0 if it includes none
RECURSIVE FirstMatch(_, _, _)
FirstMatch(lowerText, keywords, i) ==
  IF i > Len(keywords) THEN 0
  ELSE IF Includes(lowerText, ToLowerCase(keywords[i])) THEN i
  ELSE FirstMatch(lowerText, keywords, i + 1)

\* the keyword lists per language, each keyword as its words (the Yoruba and
\* Igbo keywords are written without their diacritics)
emergencyKeywords(language) ==
  CASE language = "pcm" ->
         << <<"I", "dey", "die">>, <<"kasala">>, <<"wahala", "big">>,
            <<"emergency">>, <<"I", "no", "fit", "breathe">> >>
    [] language = "yo" ->
         << <<"pajawiri">>, <<"mo", "n", "ku">>, <<"kiakia">>,
            <<"emi", "ko", "le", "mi">> >>
    [] language = "ha" ->
         << <<"gaggawa">>, <<"ina", "mutuwa">>, <<"nan", "take">>,
            <<"ba", "zan", "iya", "numfashi", "ba">> >>
    [] language = "ig" ->
         << <<"mberede">>, <<"ana", "m", "anwu">>, <<"ozugbo">>,
            <<"enweghi", "m", "ike", "iku", "ume">> >>
    [] OTHER ->
         << <<"emergency">>, <<"dying">>, <<"can't", "breathe">>,
            <<"chest", "pain">>, <<"unconscious">>, <<"bleeding">>,
            <<"heart", "attack">> >>

checkForEmergencyMutant(text, language) ==
  LET keywords == emergencyKeywords(language)
      k == FirstMatch(text, keywords, 1)
  IN IF k > 0
       THEN [isEmergency |-> TRUE, keyword |-> keywords[k], confidence |-> 9]
       ELSE [isEmergency |-> FALSE, keyword |-> <<>>, confidence |-> 0]
checkForEmergency(text, language) ==
  LET keywords == emergencyKeywords(language)
      k == FirstMatch(ToLowerCase(text), keywords, 1)
  IN IF k > 0
       THEN [isEmergency |-> TRUE, keyword |-> keywords[k], confidence |-> 9]
       ELSE [isEmergency |-> FALSE, keyword |-> <<>>, confidence |-> 0]

symptomKeywords ==
  << <<"fever">>, <<"headache">>, <<"cough">>, <<"cold">>, <<"pain">>,
     <<"tired">>, <<"nausea">>, <<"vomit">>, <<"diarrhea">>, <<"stomach">>,
     <<"chest">>, <<"throat">>, <<"body", "aches">> >>

RECURSIVE extractFrom(_, _)
extractFrom(lowerText, i) ==
  IF i > Len(symptomKeywords) THEN <<>>
  ELSE (IF Includes(lowerText, symptomKeywords[i])
          THEN << symptomKeywords[i] >> ELSE <<>>)
       \o extractFrom(lowerText, i + 1)

extractSymptoms(text) == extractFrom(ToLowerCase(text), 1)

NeedsMoreInfoMutant(symptoms) == FALSE
NeedsMoreInfo(symptoms) == Len(symptoms) < 2

performBasicTriage(text) ==
  LET symptoms == extractSymptoms(text)
  IN [symptoms |-> symptoms, needsMoreInfo |-> NeedsMoreInfo(symptoms)]

\* /\b(\d{1,2})\b/ : the words of the model that are one- or two-digit numbers
NumberWord(w) ==
  CASE w = "25" -> 25
    [] w = "30" -> 30
    [] w = "0" -> 0
    [] OTHER -> -1

RECURSIVE FirstNumber(_, _)
FirstNumber(text, i) ==
  IF i > Len(text) THEN -1
  ELSE IF NumberWord(text[i]) >= 0 THEN NumberWord(text[i])
  ELSE FirstNumber(text, i + 1)

\* the word "female" contains the letters "male"
HasMale(lowerText) == \E i \in 1..Len(lowerText) : lowerText[i] \in {"male", "female"}
HasFemale(lowerText) == \E i \in 1..Len(lowerText) : lowerText[i] = "female"

\* the demographics found in the text, merged over the ones already held
extractDemographicsMutant(text, userData) ==
  LET age == FirstNumber(text, 1)
      lowerText == ToLowerCase(text)
      withAge == IF age >= 1 /\ age <= 120
                   THEN [age |-> age, gender |-> None]
                   ELSE [age |-> 0, gender |-> None]
  IN IF HasMale(lowerText) /\ ~HasFemale(lowerText)
       THEN [withAge EXCEPT !.gender = "male"]
       ELSE IF HasFemale(lowerText)
              THEN [withAge EXCEPT !.gender = "female"]
              ELSE withAge
extractDemographics(text, userData) ==
  LET age == FirstNumber(text, 1)
      lowerText == ToLowerCase(text)
      withAge == IF age >= 1 /\ age <= 120
                   THEN [userData EXCEPT !.age = age] ELSE userData
  IN IF HasMale(lowerText) /\ ~HasFemale(lowerText)
       THEN [withAge EXCEPT !.gender = "male"]
       ELSE IF HasFemale(lowerText)
              THEN [withAge EXCEPT !.gender = "female"]
              ELSE withAge

languageMap ==
  << <<"english", "en">>, <<"pidgin", "pcm">>, <<"yoruba", "yo">>,
     <<"hausa", "ha">>, <<"igbo", "ig">> >>

RECURSIVE FirstLanguage(_, _)
FirstLanguage(lowerMessage, i) ==
  IF i > Len(languageMap) THEN "en"
  ELSE IF Includes(lowerMessage, << languageMap[i][1] >>) THEN languageMap[i][2]
  ELSE FirstLanguage(lowerMessage, i + 1)


\* ---------------------------------------------------------------- replies
SupportedLanguages == {"en", "pcm", "yo", "ha", "ig"}

\* the keys of the message table
MessageKeys ==
  {"hello", "demographics_prompt", "symptoms_prompt",
   "demographics_clarification", "symptom_collection_error",
   "no_providers_found", "select_provider", "provider_matching_error",
   "provider_selection_error", "appointment_booked"}

\* messages[key]?.[language] || messages[key]?.en || 'Message not found'
getLocalizedMessage(key, language) ==
  IF key \in MessageKeys
    THEN [type |-> "text", message |-> key,
          lang |-> IF language \in SupportedLanguages THEN language ELSE "en",
          providers |-> <<>>]
    ELSE [type |-> "text", message |-> "Message not found", lang |-> "en",
          providers |-> <<>>]

\* getLocalizedMessage('general_error', language) || 'I apologize, ...'
generateErrorResponse(language) == getLocalizedMessage("general_error", language)

generateFollowUpQuestion(language) ==
  [type |-> "text", message |-> "follow_up",
   lang |-> IF language \in SupportedLanguages THEN language ELSE "en",
   providers |-> <<>>]

Reply(type, message) ==
  [type |-> type, message |-> message, lang |-> "en", providers |-> <<>>]

findMockProviders == <<"1", "2", "3">>

\* ---------------------------------------------------------------- sessions
EmptyUserData == [age |-> 0, gender |-> None]

EmptyTriageData ==
  [symptoms |-> <<>>, processedAt |-> FALSE, riskScore |-> 0, severity |-> None,
   recommendation |-> None, likelyConditions |-> <<>>,
   assessmentCompleted |-> FALSE]

\* the session object built by SessionManager.getOrCreateSession
NewSession(sessionId, phoneNumber) ==
  [id |-> sessionId, phoneNumber |-> phoneNumber,
   conversationState |-> INITIAL, preferredLanguage |-> "en",
   userData |-> EmptyUserData, triageData |-> EmptyTriageData,
   updatedAt |-> 0]

ColumnNames ==
  {"conversationState", "preferredLanguage", "userData", "triageData", "location"}

\* MySQLService.updateSession on one row: only the five known columns are
\* written, updatedAt is refreshed when at least one of them is present
UpdateRow(row, updates) ==
  IF DOMAIN updates \cap ColumnNames = {} THEN row
  ELSE [row EXCEPT
          !.conversationState =
             IF "conversationState" \in DOMAIN updates
               THEN updates.conversationState ELSE @,
          !.preferredLanguage =
             IF "preferredLanguage" \in DOMAIN updates
               THEN updates.preferredLanguage ELSE @,
          !.userData =
             IF "userData" \in DOMAIN updates THEN updates.userData ELSE @,
          !.triageData =
             IF "triageData" \in DOMAIN updates THEN updates.triageData ELSE @,
          !.updatedAt = @ + 1]

\* UPDATE sessions SET ... WHERE id = ?
updateSession(table, sessionId, updates) ==
  { IF row.id = sessionId THEN UpdateRow(row, updates) ELSE row : row \in table }

\* SELECT * FROM sessions WHERE phoneNumber = ?  (rows[0] or null)
NullSession == NewSession(<<>>, "")

getSessionByPhone(table, phoneNumber) ==
  IF \E row \in table : row.phoneNumber = phoneNumber
    THEN CHOOSE row \in table : row.phoneNumber = phoneNumber
    ELSE NullSession

\* INSERT INTO sessions: phoneNumber is UNIQUE, id is the primary key
CanInsertMutant(table, session) == TRUE
CanInsert(table, session) ==
  \A row \in table : row.phoneNumber # session.phoneNumber /\ row.id # session.id

\* ---------------------------------------------------------------- state machine
updateSessionState(newState) ==
  [conversationState |-> newState, lastStateUpdate |-> "now"]

Outcome(updates, response) == [updates |-> updates, response |-> response]

handleInitialContactMutant(message, session) ==
  IF checkForEmergency(message.original, "en").isEmergency
    THEN Outcome(<< updateSessionState(EMERGENCY_DETECTED) >>,
                 Reply("emergency", "emergency"))
    ELSE Outcome(<<>>, Reply("welcome", "welcome"))
handleInitialContact(message, session) ==
  IF checkForEmergency(message.original, "en").isEmergency
    THEN Outcome(<< updateSessionState(EMERGENCY_DETECTED) >>,
                 Reply("emergency", "emergency"))
    ELSE Outcome(<< updateSessionState(LANGUAGE_SELECTION) >>,
                 Reply("welcome", "welcome"))

handleLanguageSelectionMutant(message, session) ==
  LET selectedLanguage == FirstLanguage(ToLowerCase(message.original), 3)
  IN Outcome(<< [preferredLanguage |-> selectedLanguage,
                 conversationState |-> COLLECTING_DEMOGRAPHICS] >>,
             getLocalizedMessage("demographics_prompt", selectedLanguage))
handleLanguageSelection(message, session) ==
  LET selectedLanguage == FirstLanguage(ToLowerCase(message.original), 1)
  IN Outcome(<< [preferredLanguage |-> selectedLanguage,
                 conversationState |-> COLLECTING_DEMOGRAPHICS] >>,
             getLocalizedMessage("demographics_prompt", selectedLanguage))

handleDemographicsCollection(message, session) ==
  Outcome(<< [userData |-> extractDemographics(message.original, session.userData),
              conversationState |-> COLLECTING_SYMPTOMS] >>,
          getLocalizedMessage("symptoms_prompt", session.preferredLanguage))

assessment ==
  [riskScore |-> 3, severity |-> "MODERATE",
   recommendation |-> "appointment_24_48h",
   likelyConditions |-> <<"Common Cold", "Flu", "Allergies">>]

performRiskAssessmentMutant(session) ==
  LET store == [triageData |->
                  [session.triageData EXCEPT
                     !.riskScore = assessment.riskScore,
                     !.severity = assessment.severity,
                     !.recommendation = assessment.recommendation,
                     !.likelyConditions = assessment.likelyConditions,
                     !.assessmentCompleted = TRUE]]
  IN Outcome(<< store >>,
             [type |-> "triage_results", message |-> assessment.severity,
              lang |-> "en", providers |-> <<>>])
performRiskAssessment(session) ==
  LET store == [triageData |->
                  [session.triageData EXCEPT
                     !.riskScore = assessment.riskScore,
                     !.severity = assessment.severity,
                     !.recommendation = assessment.recommendation,
                     !.likelyConditions = assessment.likelyConditions,
                     !.assessmentCompleted = TRUE]]
  IN IF assessment.severity = "EMERGENCY"
       THEN Outcome(<< store, updateSessionState(EMERGENCY_DETECTED) >>,
                    Reply("emergency", "emergency"))
       ELSE Outcome(<< store, updateSessionState(PROVIDER_MATCHING) >>,
                    [type |-> "triage_results", message |-> assessment.severity,
                     lang |-> "en", providers |-> findMockProviders])

handleSymptomCollection(message, session) ==
  IF checkForEmergency(message.original, session.preferredLanguage).isEmergency
    THEN Outcome(<< updateSessionState(EMERGENCY_DETECTED) >>,
                 Reply("emergency", "emergency"))
    ELSE
      LET triageResult == performBasicTriage(message.original)
          store == [triageData |->
                      [session.triageData EXCEPT
                         !.symptoms = triageResult.symptoms,
                         !.processedAt = TRUE]]
          risk == performRiskAssessment(session)
      IN IF triageResult.needsMoreInfo
           THEN Outcome(<< store >>,
                        generateFollowUpQuestion(session.preferredLanguage))
           ELSE Outcome(<< store, updateSessionState(ASSESSING_SEVERITY) >>
                          \o risk.updates,
                        risk.response)

handleSeverityAssessment(message, session) == performRiskAssessment(session)

handleProviderMatching(message, session) ==
  IF Len(findMockProviders) = 0
    THEN Outcome(<<>>, getLocalizedMessage("no_providers_found",
                                            session.preferredLanguage))
    ELSE Outcome(<<>>, [type |-> "interactive", message |-> "select_provider",
                        lang |-> getLocalizedMessage("select_provider",
                                   session.preferredLanguage).lang,
                        providers |-> findMockProviders])

handleAppointmentBooking(message, session) ==
  Outcome(<< updateSessionState(COMPLETED) >>,
          getLocalizedMessage("appointment_booked", session.preferredLanguage))

handleUnknownState(message, session) ==
  Outcome(<<>>, Reply("text", "unknown_state"))

handleProviderSelection(providerId, session) ==
  Outcome(<< updateSessionState(APPOINTMENT_BOOKING),
             [selectedProvider |-> providerId] >>,
          [type |-> "interactive", message |-> "provider_info",
           lang |-> "en", providers |-> << providerId >>])

\* a reply id is its pattern prefix followed by the rest of the id
handleInteractiveReplyMutant(message, session) ==
  LET replyId == IF message.buttonId # <<>> THEN message.buttonId
                 ELSE message.listId
  IN IF Len(replyId) > 0 /\ replyId[1] = "lang_"
       THEN Outcome(<< [preferredLanguage |-> replyId[2],
                        conversationState |-> COLLECTING_DEMOGRAPHICS] >>,
                    getLocalizedMessage("demographics_prompt", replyId[2]))
     ELSE IF Len(replyId) > 0 /\ replyId[1] = "provider_"
       THEN handleProviderSelection(replyId[2], session)
     ELSE IF replyId = <<"find_hospitals">>
       THEN Outcome(<< updateSessionState(EMERGENCY_DETECTED) >>,
                    Reply("text", "nearby_hospitals"))
     ELSE IF replyId = <<"call_emergency">>
       THEN Outcome(<<>>, Reply("text", "emergency_numbers"))
     ELSE Outcome(<<>>, Reply("text", "not_understood"))
handleInteractiveReply(message, session) ==
  LET replyId == IF message.buttonId # <<>> THEN message.buttonId
                 ELSE message.listId
  IN IF Len(replyId) > 0 /\ replyId[1] = "lang_"
       THEN Outcome(<< [preferredLanguage |-> replyId[2],
                        conversationState |-> COLLECTING_DEMOGRAPHICS] >>,
                    getLocalizedMessage("demographics_prompt", replyId[2]))
     ELSE IF Len(replyId) > 0 /\ replyId[1] = "provider_"
       THEN handleProviderSelection(replyId[2], session)
     ELSE IF replyId = <<"find_hospitals">>
       THEN Outcome(<<>>, Reply("text", "nearby_hospitals"))
     ELSE IF replyId = <<"call_emergency">>
       THEN Outcome(<<>>, Reply("text", "emergency_numbers"))
     ELSE Outcome(<<>>, Reply("text", "not_understood"))

manageConversation(message, session) ==
  IF message.isButtonReply \/ message.isListReply
    THEN handleInteractiveReply(message, session)
    ELSE
      LET currentState == session.conversationState
      IN CASE currentState = INITIAL -> handleInitialContact(message, session)
           [] currentState = LANGUAGE_SELECTION ->
                handleLanguageSelection(message, session)
           [] currentState = COLLECTING_DEMOGRAPHICS ->
                handleDemographicsCollection(message, session)
           [] currentState = COLLECTING_SYMPTOMS ->
                handleSymptomCollection(message, session)
           [] currentState = ASSESSING_SEVERITY ->
                handleSeverityAssessment(message, session)
           [] currentState = PROVIDER_MATCHING ->
                handleProviderMatching(message, session)
           [] currentState = APPOINTMENT_BOOKING ->
                handleAppointmentBooking(message, session)
           [] OTHER -> handleUnknownState(message, session)


\* ---------------------------------------------------------------- payloads
Texts ==
  { <<"hello">>,
    <<"I", "have", "a", "headache">>,
    <<"and", "a", "fever">>,
    <<"Headache", "and", "cough">>,
    <<"I", "can't", "breathe", ",", "emergency">>,
    <<"Yoruba", "please">>,
    <<"25", "male">> }

ReplyIds ==
  { <<"lang_", "yo">>, <<"lang_", "fr">>, <<"provider_", "1">>,
    <<"find_hospitals">>, <<"call_emergency">>, <<"book_now">> }

Payload(id, mobile, type, text, replyId) ==
  [id |-> id, mobile |-> mobile, type |-> type, text |-> text,
   replyId |-> replyId]

NullPayload == Payload(NoId, "", None, <<>>, <<>>)

ContentPayloads ==
  { Payload(id, Phone, "text", t, <<>>) : id \in Ids \cup {NoId}, t \in Texts }
  \cup { Payload(id, Phone, "button_reply", <<>>, r) :
           id \in Ids \cup {NoId}, r \in ReplyIds }

StatusPayloads ==
  { Payload(id, Phone, "delivered", <<>>, <<>>) : id \in Ids }
  \cup { Payload(NoId, Phone, t, <<>>, <<>>) : t \in {"read", "sent", "failed"} }

InvalidPayloads ==
  { Payload(NoId, BadPhone, "text", <<"hello">>, <<>>),
    Payload(NoId, "", "text", <<"hello">>, <<>>),
    Payload(NoId, Phone, "", <<>>, <<>>) }

Payloads == ContentPayloads \cup StatusPayloads \cup InvalidPayloads

\* /^\+?[1-9]\d{1,14}$/ on the phone numbers of the model
PhoneFormatOk(phoneNumber) == phoneNumber = Phone

validateWebhookPayloadMutant(payload) ==
  payload.type # "" /\ payload.mobile # ""
validateWebhookPayload(payload) ==
  /\ payload.type # ""
  /\ payload.mobile # ""
  /\ PhoneFormatOk(payload.mobile)

isStatusMessageMutant(payload) ==
  payload.type \in {"delivered", "enroute"}
isStatusMessage(payload) ==
  payload.type \in {"delivered", "read", "sent", "failed", "enroute"}

parseIncomingMessage(payload) ==
  [messageId |-> payload.id, phoneNumber |-> payload.mobile,
   messageType |-> payload.type,
   original |-> payload.text,
   isButtonReply |-> payload.type = "button_reply",
   isListReply |-> payload.type = "list_reply",
   buttonId |-> IF payload.type = "button_reply" THEN payload.replyId ELSE <<>>,
   listId |-> IF payload.type = "list_reply" THEN payload.replyId ELSE <<>>]

NullMessage == parseIncomingMessage(NullPayload)

NullResponse == [type |-> None, message |-> None, lang |-> None, providers |-> <<>>]

\* ---------------------------------------------------------------- history
\* INSERT of one row
Insert(table, row) == table (+) SetToBag({row})

MarkerMutant(sessionId, messageData) ==
  [sessionId |-> sessionId, direction |-> "incoming",
   messageId |-> NoId, type |-> "user"]
Marker(sessionId, messageData) ==
  [sessionId |-> sessionId, direction |-> "incoming",
   messageId |-> messageData.messageId, type |-> "user"]

Outgoing(sessionId, response) ==
  [sessionId |-> sessionId, direction |-> "outgoing",
   messageId |-> NoId, type |-> response.type]

\* SELECT COUNT(*) FROM conversation_history ch JOIN sessions s ... > 0
isMessageProcessedMutant(log, table, messageId, phoneNumber) == FALSE
isMessageProcessed(log, table, messageId, phoneNumber) ==
  \E ch \in BagToSet(log) :
     /\ ch.messageId = messageId
     /\ ch.direction = "incoming"
     /\ \E s \in table : s.id = ch.sessionId /\ s.phoneNumber = phoneNumber


\* ---------------------------------------------------------------- state
VARIABLES
  sessions,   \* rows of the sessions table
  history,    \* rows of the conversation history (a bag of rows)
  outbox,     \* messages sent on the channel (a bag)
  pc,         \* per delivery slot: the store operation it is about to await
  msg,        \* per delivery slot: the parsed messageData
  session,    \* per delivery slot: the session object returned by getOrCreateSession
  pending,    \* per delivery slot: the updateSession calls still to be awaited
  response,   \* per delivery slot: the response manageConversation returns
  delivered,  \* number of webhook deliveries so far
  issued,     \* the payload the channel sent under each message id
  returned,   \* message ids for which a processWebhook call has returned
  skipped,    \* message ids logged as 'Message already processed, skipping'
  results,    \* what each finished processWebhook call gave its caller (a bag)
  failures,   \* number of steps so far in which a store or channel call threw
  conversationStates, \* the web chat's Map entry of the chat session: an
                      \* object reference, 0 when the Map has no entry
  objects,    \* the ConversationState objects allocated so far
  arrays,     \* the arrays (symptoms, conversationHistory) allocated so far
  chatPc,     \* per ai-chat request slot: the await it is suspended at
  chatReq,    \* per ai-chat request slot: message, state read, result
  chatLog,    \* rows written by chatService.sendMessage (a bag)
  chats,      \* number of ai-chat requests so far
  processed,  \* number of ai-chat requests that saved their new state
  emergencyArgs,  \* the arguments of the latest checkForEmergency call
  emergencyCheck  \* what that call returned

\* the state of the web chat
chatVars ==
  << conversationStates, objects, arrays, chatPc, chatReq, chatLog, chats,
     processed >>

\* a call of checkForEmergency on its own
checkVars == << emergencyArgs, emergencyCheck >>

\* the state of the webhook pipeline
hookVars ==
  << sessions, history, outbox, pc, msg, session, pending, response,
     delivered, issued, returned, skipped, results, failures >>

vars ==
  << sessions, history, outbox, pc, msg, session, pending, response,
     delivered, issued, returned, skipped, results, failures,
     conversationStates, objects, arrays, chatPc, chatReq, chatLog, chats,
     processed, emergencyArgs, emergencyCheck >>

\* ---------------------------------------------------------------- web chat
\* enum ConversationStage, in declaration order
GREETING == "greeting"
NAME_COLLECTION == "name_collection"
PHONE_COLLECTION == "phone_collection"
SYMPTOM_INQUIRY == "symptom_inquiry"
SYMPTOM_CLARIFICATION == "symptom_clarification"
DIAGNOSIS == "diagnosis"
DOCTOR_CONFIRMATION == "doctor_confirmation"
FORM_MODAL == "form_modal"

ConversationStage ==
  << GREETING, NAME_COLLECTION, PHONE_COLLECTION, SYMPTOM_INQUIRY,
     SYMPTOM_CLARIFICATION, DIAGNOSIS, DOCTOR_CONFIRMATION, FORM_MODAL >>

\* LANGUAGE_PATTERNS in key order: per language the words and the phrases of
\* its two patterns (both global, case-insensitive, between word boundaries)
LANGUAGE_PATTERNS ==
  << [lang |-> "pidgin",
      words |-> {"wetin", "dey", "no", "na", "go", "fit", "sabi", "abi", "sha",
                 "oya", "make", "dem", "una", "dis", "dat"},
      phrases |-> { <<"how", "far">>, <<"how", "body">>, <<"i", "wan">>,
                    <<"e", "be", "say">>, <<"no", "wahala">>,
                    <<"small", "small">> }],
     [lang |-> "yoruba",
      words |-> {"bawo", "pele", "emi", "iwo", "wa", "ni", "ti", "se", "ko",
                 "fun", "ninu", "lati", "si", "ati", "alafia", "ese", "tutu",
                 "gbona", "inu", "ori", "owo"},
      phrases |-> { <<"mo", "fe">>, <<"mo", "ni">>, <<"o", "dara">> }],
     [lang |-> "igbo",
      words |-> {"kedu", "ndewo", "m", "gi", "ka", "nke", "ya", "ndi", "unu",
                 "aha", "obi", "isi", "aka", "nnoo", "daalu", "aru", "onya",
                 "mmiri"},
      phrases |-> { <<"achoro", "m">>, <<"o", "di", "mma">>, <<"nke", "oma">> }],
     [lang |-> "hausa",
      words |-> {"sannu", "yaya", "ina", "ka", "ki", "mu", "su", "da", "a",
                 "ba", "ko", "mai", "wannan", "wancan", "lafiya", "maraba",
                 "jiki", "kai", "hannu", "kafa"},
      phrases |-> { <<"na", "gode">>, <<"ina", "son">>, <<"ba", "komai">> }] >>

\* the number of matches of a language's patterns in the lowercased text
Score(patterns, lowerText) ==
  Cardinality({ i \in 1..Len(lowerText) : lowerText[i] \in patterns.words })
  + Cardinality({ i \in 1..Len(lowerText) :
                    \E ph \in patterns.phrases :
                      /\ i + Len(ph) - 1 <= Len(lowerText)
                      /\ SubSeq(lowerText, i, i + Len(ph) - 1) = ph })

\* Object.entries(scores).reduce((a, b) => scores[a] > scores[b] ? a : b)
RECURSIVE ReduceScores(_, _, _)
ReduceScores(scores, a, b) ==
  IF b > Len(scores) THEN a
  ELSE ReduceScores(scores, IF scores[a] > scores[b] THEN a ELSE b, b + 1)

detectLanguage(text) ==
  LET lowerText == ToLowerCase(text)
      scores == [i \in 1..Len(LANGUAGE_PATTERNS) |->
                   Score(LANGUAGE_PATTERNS[i], lowerText)]
      detectedLang == ReduceScores(scores, 1, 2)
  IN IF scores[detectedLang] > 0
       THEN LANGUAGE_PATTERNS[detectedLang].lang ELSE "english"

\* /yes|yeah|ok|sure|i need|i want|book|appointment/i or /yes|ehen|okay|sure/i
\* on the words of the model, none of which holds a pattern inside a longer word
wantsDoctor(userMessage) ==
  LET lower == ToLowerCase(userMessage)
  IN \/ \E i \in 1..Len(lower) :
          lower[i] \in {"yes", "yeah", "ok", "sure", "book", "appointment",
                        "ehen", "okay"}
     \/ Includes(lower, <<"i", "need">>)
     \/ Includes(lower, <<"i", "want">>)

\* the heap of the web chat: ConversationState objects and the arrays they
\* refer to; newState = { ...state } copies the references, not the arrays
Heap(objs, arrs) == [objects |-> objs, arrays |-> arrs]

EmptyHeap == Heap(<<>>, <<>>)

\* initializeConversationState: a new object with two new arrays; the result
\* is the heap and the reference of the new object
initializeConversationState(heap, language) ==
  LET n == Len(heap.arrays)
  IN [heap |-> Heap(Append(heap.objects,
                           [stage |-> GREETING, patientName |-> <<>>,
                            phoneNumber |-> <<>>, symptoms |-> n + 1,
                            conversationHistory |-> n + 2,
                            language |-> language]),
                    heap.arrays \o << <<>>, <<>> >>),
      ref |-> Len(heap.objects) + 1]

PushMutant(heap, array, entry) == heap
Push(heap, array, entry) ==
  Heap(heap.objects, [heap.arrays EXCEPT ![array] = Append(@, entry)])

\* processConversation up to the await of generateStageResponse: the detected
\* language is written into the object passed in, the user message is pushed
BeginConversation(heap, ref, userMessage) ==
  LET state == heap.objects[ref]
  IN Push(Heap([heap.objects EXCEPT
                  ![ref].language = detectLanguage(userMessage)],
               heap.arrays),
          state.conversationHistory, [role |-> "user", content |-> userMessage])

updateConversationStateMutant(heap, ref, userMessage) ==
  LET state == heap.objects[ref]
      pushed == Push(heap, state.symptoms, userMessage)
      newState ==
        CASE state.stage = GREETING -> [state EXCEPT !.stage = NAME_COLLECTION]
          [] state.stage = NAME_COLLECTION ->
               [state EXCEPT !.patientName = userMessage,
                             !.stage = PHONE_COLLECTION]
          [] state.stage = PHONE_COLLECTION ->
               [state EXCEPT !.phoneNumber = userMessage,
                             !.stage = SYMPTOM_INQUIRY]
          [] state.stage = SYMPTOM_INQUIRY ->
               [state EXCEPT !.stage = SYMPTOM_CLARIFICATION]
          [] state.stage = SYMPTOM_CLARIFICATION ->
               IF Len(pushed.arrays[state.symptoms]) >= 2
                 THEN [state EXCEPT !.stage = DIAGNOSIS] ELSE state
          [] state.stage = DIAGNOSIS ->
               [state EXCEPT !.stage = DOCTOR_CONFIRMATION]
          [] state.stage = DOCTOR_CONFIRMATION ->
               IF wantsDoctor(userMessage)
                 THEN [state EXCEPT !.stage = FORM_MODAL] ELSE state
          [] OTHER -> [state EXCEPT !.stage = GREETING]
      after == IF state.stage \in {SYMPTOM_INQUIRY, SYMPTOM_CLARIFICATION}
                 THEN pushed ELSE heap
  IN [heap |-> Heap(Append(after.objects, newState), after.arrays),
      ref |-> Len(heap.objects) + 1]

\* updateConversationState: the new object is appended to the heap, the
\* symptoms are pushed onto the array the old and the new object share
updateConversationState(heap, ref, userMessage) ==
  LET state == heap.objects[ref]
      pushed == Push(heap, state.symptoms, userMessage)
      newState ==
        CASE state.stage = GREETING -> [state EXCEPT !.stage = NAME_COLLECTION]
          [] state.stage = NAME_COLLECTION ->
               [state EXCEPT !.patientName = userMessage,
                             !.stage = PHONE_COLLECTION]
          [] state.stage = PHONE_COLLECTION ->
               [state EXCEPT !.phoneNumber = userMessage,
                             !.stage = SYMPTOM_INQUIRY]
          [] state.stage = SYMPTOM_INQUIRY ->
               [state EXCEPT !.stage = SYMPTOM_CLARIFICATION]
          [] state.stage = SYMPTOM_CLARIFICATION ->
               IF Len(pushed.arrays[state.symptoms]) >= 2
                 THEN [state EXCEPT !.stage = DIAGNOSIS] ELSE state
          [] state.stage = DIAGNOSIS ->
               [state EXCEPT !.stage = DOCTOR_CONFIRMATION]
          [] state.stage = DOCTOR_CONFIRMATION ->
               IF wantsDoctor(userMessage)
                 THEN [state EXCEPT !.stage = FORM_MODAL] ELSE state
          [] OTHER -> state
      after == IF state.stage \in {SYMPTOM_INQUIRY, SYMPTOM_CLARIFICATION}
                 THEN pushed ELSE heap
  IN [heap |-> Heap(Append(after.objects, newState), after.arrays),
      ref |-> Len(heap.objects) + 1]

\* processConversation from the return of generateStageResponse on
EndConversation(heap, ref, userMessage, aiResponse) ==
  updateConversationState(
    Push(heap, heap.objects[ref].conversationHistory,
         [role |-> "assistant", content |-> aiResponse]),
    ref, userMessage)

\* the two texts generateAIResponse returns: the model's answer, or the apology
\* of its catch block
AIResponses == { <<"ai_response">>, <<"technical_difficulties">> }

\* the messages of the chat a patient had before the requests under observation
ChatScript ==
  << <<"hello">>, <<"ada">>, <<"0801">>, <<"headache">>,
     <<"since", "monday">>, <<"hello">>, <<"yes">> >>

\* the heap the ai-chat handler leaves when it has handled the first k
\* scripted messages one after the other, without the objects no reference
\* leads to any more: one ConversationState object and its two arrays
ChatReplay(k) ==
  IF k = 0 THEN [heap |-> EmptyHeap, ref |-> 0]
  ELSE [heap |->
          Heap(<< [stage |-> ConversationStage[k + 1],
                   patientName |-> IF k >= 2 THEN ChatScript[2] ELSE <<>>,
                   phoneNumber |-> IF k >= 3 THEN ChatScript[3] ELSE <<>>,
                   symptoms |-> 1,
                   conversationHistory |-> 2,
                   language |-> detectLanguage(ChatScript[k])] >>,
               << IF k >= 5 THEN << ChatScript[4], ChatScript[5] >>
                  ELSE IF k = 4 THEN << ChatScript[4] >> ELSE <<>>,
                  [i \in 1..(2 * k) |->
                     IF i % 2 = 1
                       THEN [role |-> "user", content |-> ChatScript[(i + 1) \div 2]]
                       ELSE [role |-> "assistant",
                             content |-> <<"ai_response">>]] >>),
        ref |-> 1]

\* the rows chatService.sendMessage wrote for the first k scripted messages
RECURSIVE ChatReplayLog(_)
ChatReplayLog(k) ==
  IF k = 0 THEN EmptyBag
  ELSE ChatReplayLog(k - 1)
         (+) SetToBag({[sender_type |-> "patient", message_text |-> ChatScript[k]]})
         (+) SetToBag({[sender_type |-> "system",
                        message_text |-> <<"ai_response">>]})

RECURSIVE ApplyAll(_, _)
ApplyAll(row, updates) ==
  IF Len(updates) = 0 THEN row
  ELSE ApplyAll(UpdateRow(row, Head(updates)), Tail(updates))

\* the conversation a user had before the deliveries under observation
Script ==
  << Payload(NoId, Phone, "text", <<"hello">>, <<>>),
     Payload(NoId, Phone, "text", <<"english">>, <<>>),
     Payload(NoId, Phone, "text", <<"25", "male">>, <<>>),
     Payload(NoId, Phone, "text", <<"Headache", "and", "cough">>, <<>>),
     Payload(NoId, Phone, "button_reply", <<>>, <<"provider_", "1">>),
     Payload(NoId, Phone, "text", <<"hello">>, <<>>) >>

\* processUserMessage run to completion, one message after the other
RECURSIVE Replay(_)
Replay(k) ==
  IF k = 0
    THEN [row |-> NewSession(<<"sess", 0, 0>>, Phone), log |-> EmptyBag]
    ELSE LET before == Replay(k - 1)
             out == manageConversation(parseIncomingMessage(Script[k]), before.row)
         IN [row |-> ApplyAll(before.row, out.updates),
             log |-> Insert(before.log, Outgoing(before.row.id, out.response))]

\* an ai-chat request slot with no request in it
NullReq ==
  [message |-> <<>>, state |-> 0, newState |-> 0, response |-> <<>>,
   shouldShowModal |-> FALSE]

\* no ai-chat request in progress, the chat as the first k scripted messages
\* left it (k = 0: the Map has no entry for the chat session)
ChatStart(k) ==
  /\ conversationStates = ChatReplay(k).ref
  /\ objects = ChatReplay(k).heap.objects
  /\ arrays = ChatReplay(k).heap.arrays
  /\ chatPc = [p \in Procs |-> "idle"]
  /\ chatReq = [p \in Procs |-> NullReq]
  /\ chatLog = ChatReplayLog(k)
  /\ chats = 0
  /\ processed = 0

\* no delivery in progress, the session as the first k scripted messages left
\* it (k = 0: the user has no session)
HookStart(k) ==
  /\ sessions = IF k = 0 THEN {} ELSE { Replay(k).row }
  /\ history = Replay(k).log
  /\ outbox = EmptyBag
  /\ pc = [p \in Procs |-> "idle"]
  /\ msg = [p \in Procs |-> NullMessage]
  /\ session = [p \in Procs |-> NullSession]
  /\ pending = [p \in Procs |-> <<>>]
  /\ response = [p \in Procs |-> NullResponse]
  /\ delivered = 0
  /\ issued = [id \in Ids |-> NullPayload]
  /\ returned = {}
  /\ skipped = {}
  /\ results = EmptyBag
  /\ failures = 0

\* no call of checkForEmergency on its own yet
NoArgs == [text |-> <<>>, language |-> None]

NoCheck == [isEmergency |-> FALSE, keyword |-> <<>>, confidence |-> 0]

CheckStart ==
  /\ emergencyArgs = NoArgs
  /\ emergencyCheck = NoCheck

Init ==
  /\ \E k \in 0..Len(Script) : HookStart(k)
  /\ ChatStart(0)
  /\ CheckStart

\* ---------------------------------------------------------------- steps
\* what processWebhook gives its caller: the error it throws, or the object
\* it returns; path names the statement of processWebhook / processUserMessage
\* at which the call left the message
Result(status, path, messageId) ==
  [status |-> status, path |-> path, messageId |-> messageId]

\* processWebhook returns: { status: 'ok' } for a status message, else
\* { status: 'success' }; the slot is free again
Finish(p, messageId, path) ==
  /\ results' = Insert(results,
                       Result(IF path = "status" THEN "ok" ELSE "success",
                              path, messageId))
  /\ pc' = [pc EXCEPT ![p] = "idle"]
  /\ msg' = [msg EXCEPT ![p] = NullMessage]
  /\ session' = [session EXCEPT ![p] = NullSession]
  /\ pending' = [pending EXCEPT ![p] = <<>>]
  /\ response' = [response EXCEPT ![p] = NullResponse]
  /\ returned' = IF messageId # NoId THEN returned \cup {messageId} ELSE returned

\* manageConversation up to its first updateSession
Manage(p, messageData, sess) ==
  LET out == manageConversation(messageData, sess)
  IN /\ pending' = [pending EXCEPT ![p] = out.updates]
     /\ response' = [response EXCEPT ![p] = out.response]
     /\ pc' = [pc EXCEPT ![p] =
                 IF Len(out.updates) = 0 THEN "respond" ELSE "update"]

\* processUserMessage from the session on: the marker write when the message
\* carries an id, else manageConversation
ProceedMutant(p, messageData, sess) ==
  /\ session' = [session EXCEPT ![p] = sess]
  /\ pc' = [pc EXCEPT ![p] = "markProcessed"]
  /\ UNCHANGED << pending, response >>
Proceed(p, messageData, sess) ==
  /\ session' = [session EXCEPT ![p] = sess]
  /\ IF messageData.messageId # NoId
       THEN /\ pc' = [pc EXCEPT ![p] = "markProcessed"]
            /\ UNCHANGED << pending, response >>
       ELSE Manage(p, messageData, sess)

\* getSessionByPhone of getOrCreateSession
LookUp(p, messageData) ==
  LET existingSession == getSessionByPhone(sessions, messageData.phoneNumber)
  IN IF existingSession # NullSession
       THEN Proceed(p, messageData, existingSession)
       ELSE /\ pc' = [pc EXCEPT ![p] = "createSession"]
            /\ UNCHANGED << session, pending, response >>

\* processWebhook up to and including the first store read of
\* processUserMessage: isMessageProcessed when the message carries an id,
\* else getSessionByPhone.  The channel hands out fresh message ids in
\* increasing order and redelivers an id only with the payload it sent first.
Deliver(p, payload) ==
  /\ pc[p] = "idle"
  /\ \A q \in Procs : q < p => pc[q] # "idle"
  /\ delivered < MaxDeliveries
  /\ payload.id # NoId =>
       \/ issued[payload.id] = payload
       \/ /\ issued[payload.id] = NullPayload
          /\ \A id \in Ids : id < payload.id => issued[id] # NullPayload
  /\ delivered' = delivered + 1
  /\ issued' = IF payload.id # NoId
                 THEN [issued EXCEPT ![payload.id] = payload] ELSE issued
  /\ LET messageData == parseIncomingMessage(payload)
     IN IF ~validateWebhookPayload(payload)
          THEN /\ results' = Insert(results,
                                    Result("error", "invalid", payload.id))
               /\ UNCHANGED << pc, msg, session, pending, response, returned >>
        ELSE IF isStatusMessage(payload)
          THEN Finish(p, payload.id, "status")
        ELSE IF payload.id # NoId
          THEN IF isMessageProcessed(history, sessions, messageData.messageId,
                                     messageData.phoneNumber)
                 THEN Finish(p, payload.id, "duplicate")
                 ELSE /\ msg' = [msg EXCEPT ![p] = messageData]
                      /\ pc' = [pc EXCEPT ![p] = "getSession"]
                      /\ UNCHANGED << session, pending, response, returned,
                                      results >>
        ELSE /\ msg' = [msg EXCEPT ![p] = messageData]
             /\ LookUp(p, messageData)
             /\ UNCHANGED << returned, results >>
  /\ skipped' =
       IF /\ validateWebhookPayload(payload) /\ ~isStatusMessage(payload)
          /\ payload.id # NoId
          /\ isMessageProcessed(history, sessions, payload.id, payload.mobile)
         THEN skipped \cup {payload.id} ELSE skipped
  /\ UNCHANGED << sessions, history, outbox, failures, chatVars,
                  checkVars >>

GetSession(p) ==
  /\ pc[p] = "getSession"
  /\ LookUp(p, msg[p])
  /\ UNCHANGED << sessions, history, outbox, msg, delivered, issued, returned,
                  skipped, results, failures, chatVars,
                  checkVars >>

\* generateSessionId: sess_<Date.now()>_<random>, unique per delivery
generateSessionId(p) == <<"sess", delivered, p>>

\* the INSERT either succeeds or raises a duplicate-key error, which the catch
\* of processUserMessage answers with sendErrorMessage
CreateSession(p) ==
  /\ pc[p] = "createSession"
  /\ LET newSession == NewSession(generateSessionId(p), msg[p].phoneNumber)
     IN IF CanInsert(sessions, newSession)
          THEN /\ sessions' = sessions \cup {newSession}
               /\ Proceed(p, msg[p], newSession)
               /\ UNCHANGED << outbox, msg, returned, results >>
          ELSE /\ outbox' = Insert(outbox, [to |-> msg[p].phoneNumber,
                                            type |-> "error"])
               /\ Finish(p, msg[p].messageId, "createFailed")
               /\ UNCHANGED sessions
  /\ UNCHANGED << history, delivered, issued, skipped, failures, chatVars,
                  checkVars >>

MarkProcessed(p) ==
  /\ pc[p] = "markProcessed"
  /\ history' = Insert(history, Marker(session[p].id, msg[p]))
  /\ Manage(p, msg[p], session[p])
  /\ UNCHANGED << sessions, outbox, msg, session, delivered, issued, returned,
                  skipped, results, failures, chatVars,
                  checkVars >>

UpdateSession(p) ==
  /\ pc[p] = "update"
  /\ sessions' = updateSession(sessions, session[p].id, Head(pending[p]))
  /\ pending' = [pending EXCEPT ![p] = Tail(pending[p])]
  /\ pc' = [pc EXCEPT ![p] =
              IF Len(pending[p]) = 1 THEN "respond" ELSE "update"]
  /\ UNCHANGED << history, outbox, msg, session, response, delivered, issued,
                  returned, skipped, results, failures, chatVars,
                  checkVars >>

\* sendResponse, then addToHistory of the outgoing message
Respond(p) ==
  /\ pc[p] = "respond"
  /\ outbox' = Insert(outbox, [to |-> msg[p].phoneNumber,
                               type |-> response[p].type])
  /\ history' = Insert(history, Outgoing(session[p].id, response[p]))
  /\ Finish(p, msg[p].messageId, "replied")
  /\ UNCHANGED << sessions, delivered, issued, skipped, failures, chatVars,
                  checkVars >>

Next ==
  \/ \E p \in Procs, payload \in Payloads : Deliver(p, payload)
  \/ \E p \in Procs : GetSession(p)
  \/ \E p \in Procs : CreateSession(p)
  \/ \E p \in Procs : MarkProcessed(p)
  \/ \E p \in Procs : UpdateSession(p)
  \/ \E p \in Procs : Respond(p)

Spec == Init /\ [][Next]_vars

\* the messages of users whose deliveries race: a greeting and a symptom
\* report, with and without message id
RacePayloads ==
  { Payload(id, Phone, "text", t, <<>>) :
      id \in Ids \cup {NoId},
      t \in { <<"hello">>, <<"Headache", "and", "cough">> } }

\* concurrent deliveries of these messages
NextRace ==
  \/ \E p \in Procs, payload \in RacePayloads : Deliver(p, payload)
  \/ \E p \in Procs : GetSession(p)
  \/ \E p \in Procs : CreateSession(p)
  \/ \E p \in Procs : MarkProcessed(p)
  \/ \E p \in Procs : UpdateSession(p)
  \/ \E p \in Procs : Respond(p)

SpecRace == Init /\ [][NextRace]_vars

\* deliveries one at a time: a delivery starts when no other is in progress
DeliverSeq(p, payload) ==
  /\ \A q \in Procs : pc[q] = "idle"
  /\ Deliver(p, payload)

NextSeq ==
  \/ \E p \in Procs, payload \in Payloads : DeliverSeq(p, payload)
  \/ \E p \in Procs : GetSession(p)
  \/ \E p \in Procs : CreateSession(p)
  \/ \E p \in Procs : MarkProcessed(p)
  \/ \E p \in Procs : UpdateSession(p)
  \/ \E p \in Procs : Respond(p)

SpecSeq == Init /\ [][NextSeq]_vars

\* ---------------------------------------------------------------- failures
\* the reply built by the catch that encloses a throwing updateSession:
\* handleProviderSelection and handleSymptomCollection have their own catch,
\* every other handler leaves it to the catch of manageConversation
errorResponse(message, sess) ==
  IF message.isButtonReply \/ message.isListReply
    THEN LET replyId == IF message.buttonId # <<>> THEN message.buttonId
                        ELSE message.listId
         IN IF Len(replyId) > 0 /\ replyId[1] = "provider_"
              THEN getLocalizedMessage("provider_selection_error",
                                       sess.preferredLanguage)
              ELSE generateErrorResponse(sess.preferredLanguage)
    ELSE IF sess.conversationState = COLLECTING_SYMPTOMS
           THEN getLocalizedMessage("symptom_collection_error",
                                    sess.preferredLanguage)
           ELSE generateErrorResponse(sess.preferredLanguage)

\* sendErrorMessage: one sendTextMessage, whose failure is logged and swallowed
sendErrorMessage(box, phoneNumber, sent) ==
  IF sent THEN Insert(box, [to |-> phoneNumber, type |-> "error"]) ELSE box

\* sendResponse: the send for the response type, and when it throws the
\* fallback sendTextMessage, whose failure is logged and swallowed
sendResponse(box, phoneNumber, resp, sendOk, fallbackOk) ==
  IF sendOk THEN Insert(box, [to |-> phoneNumber, type |-> resp.type])
  ELSE IF fallbackOk THEN Insert(box, [to |-> phoneNumber, type |-> "fallback"])
  ELSE box

\* a delivery whose first store read (isMessageProcessed, or getSessionByPhone
\* for a message without id) throws: the catch of processUserMessage sends the
\* error message and processWebhook returns normally
DeliverStoreFails(p, payload, sent) ==
  /\ failures < MaxFailures
  /\ failures' = failures + 1
  /\ UNCHANGED << chatVars, checkVars >>
  /\ \A q \in Procs : pc[q] = "idle"
  /\ \A q \in Procs : q < p => pc[q] # "idle"
  /\ delivered < MaxDeliveries
  /\ payload.id # NoId =>
       \/ issued[payload.id] = payload
       \/ /\ issued[payload.id] = NullPayload
          /\ \A id \in Ids : id < payload.id => issued[id] # NullPayload
  /\ validateWebhookPayload(payload) /\ ~isStatusMessage(payload)
  /\ delivered' = delivered + 1
  /\ issued' = IF payload.id # NoId
                 THEN [issued EXCEPT ![payload.id] = payload] ELSE issued
  /\ outbox' = sendErrorMessage(outbox, payload.mobile, sent)
  /\ Finish(p, payload.id, "storeFailure")
  /\ UNCHANGED << sessions, history, skipped >>

\* getSessionByPhone, createSession or markWebhookMessageProcessed throws
StoreFails(p, sent) ==
  /\ failures < MaxFailures
  /\ failures' = failures + 1
  /\ UNCHANGED << chatVars, checkVars >>
  /\ pc[p] \in {"getSession", "createSession", "markProcessed"}
  /\ outbox' = sendErrorMessage(outbox, msg[p].phoneNumber, sent)
  /\ Finish(p, msg[p].messageId, "storeFailure")
  /\ UNCHANGED << sessions, history, delivered, issued, skipped >>

\* an updateSession awaited inside manageConversation throws: the updates
\* after it are not made and the enclosing catch builds the reply
UpdateFails(p) ==
  /\ failures < MaxFailures
  /\ failures' = failures + 1
  /\ UNCHANGED << chatVars, checkVars >>
  /\ pc[p] = "update"
  /\ pending' = [pending EXCEPT ![p] = <<>>]
  /\ response' = [response EXCEPT ![p] = errorResponse(msg[p], session[p])]
  /\ pc' = [pc EXCEPT ![p] = "respond"]
  /\ UNCHANGED << sessions, history, outbox, msg, session, delivered, issued,
                  returned, skipped, results >>

\* sendResponse and addToHistory with a failing send or a failing INSERT:
\* a failing addToHistory ends in the catch of processUserMessage
RespondFails(p, sendOk, fallbackOk, historyOk, errorOk) ==
  /\ failures < MaxFailures
  /\ failures' = failures + 1
  /\ UNCHANGED << chatVars, checkVars >>
  /\ pc[p] = "respond"
  /\ ~(sendOk /\ historyOk)
  /\ LET box == sendResponse(outbox, msg[p].phoneNumber, response[p],
                             sendOk, fallbackOk)
     IN IF historyOk
          THEN /\ outbox' = box
               /\ history' = Insert(history, Outgoing(session[p].id, response[p]))
          ELSE /\ outbox' = sendErrorMessage(box, msg[p].phoneNumber, errorOk)
               /\ UNCHANGED history
  /\ Finish(p, msg[p].messageId,
            IF sendOk THEN "historyFailed" ELSE "sendFailed")
  /\ UNCHANGED << sessions, delivered, issued, skipped >>

\* the content messages delivered while store and channel calls can fail: one
\* per catch block of the state machine, with and without message id
FailPayloads ==
  { Payload(id, Phone, "text", t, <<>>) :
      id \in Ids \cup {NoId}, t \in { <<"hello">>, <<"Headache", "and", "cough">> } }
  \cup { Payload(id, Phone, "button_reply", <<>>, <<"provider_", "1">>) :
           id \in Ids \cup {NoId} }

\* deliveries one at a time, with store and channel operations that can fail
NextFail ==
  \/ \E p \in Procs, payload \in FailPayloads : DeliverSeq(p, payload)
  \/ \E p \in Procs, payload \in FailPayloads, sent \in BOOLEAN :
       DeliverStoreFails(p, payload, sent)
  \/ \E p \in Procs : GetSession(p)
  \/ \E p \in Procs : CreateSession(p)
  \/ \E p \in Procs : MarkProcessed(p)
  \/ \E p \in Procs : UpdateSession(p)
  \/ \E p \in Procs : Respond(p)
  \/ \E p \in Procs, sent \in BOOLEAN : StoreFails(p, sent)
  \/ \E p \in Procs : UpdateFails(p)
  \/ \E p \in Procs, sendOk, fallbackOk, historyOk, errorOk \in BOOLEAN :
       RespondFails(p, sendOk, fallbackOk, historyOk, errorOk)

SpecFail == Init /\ [][NextFail]_vars

\* ---------------------------------------------------------------- ai-chat
ChatTexts ==
  { <<"hello">>, <<"yes">>, <<"wetin", "dey">>, <<"ko">> }

\* the message of the request body; <<>> is a missing or empty message
ChatMessages == ChatTexts \cup { <<>> }

\* POST /sessions/:id/ai-chat up to the await of getConversationState; a
\* request without message is answered 400
ChatReceive(p, message) ==
  /\ chatPc[p] = "idle"
  /\ \A q \in Procs : q < p => chatPc[q] # "idle"
  /\ chats < MaxChats
  /\ chats' = chats + 1
  /\ IF message = <<>>
       THEN UNCHANGED << chatPc, chatReq >>
       ELSE /\ chatReq' = [chatReq EXCEPT ![p] =
                             [NullReq EXCEPT !.message = message,
                                             !.state = conversationStates]]
            /\ chatPc' = [chatPc EXCEPT ![p] =
                            IF conversationStates = 0
                              THEN "initialize" ELSE "process"]
  /\ UNCHANGED << conversationStates, objects, arrays, chatLog, processed >>
  /\ UNCHANGED << hookVars, checkVars >>

\* initializeConversationState('english') and its saveConversationState
ChatInitialize(p) ==
  /\ chatPc[p] = "initialize"
  /\ LET new == initializeConversationState(Heap(objects, arrays), "english")
     IN /\ objects' = new.heap.objects
        /\ arrays' = new.heap.arrays
        /\ conversationStates' = new.ref
        /\ chatReq' = [chatReq EXCEPT ![p].state = new.ref]
  /\ chatPc' = [chatPc EXCEPT ![p] = "process"]
  /\ UNCHANGED << chatLog, chats, processed >>
  /\ UNCHANGED << hookVars, checkVars >>

\* processConversation up to the await of generateStageResponse
ChatProcess(p) ==
  /\ chatPc[p] = "process"
  /\ LET heap == BeginConversation(Heap(objects, arrays), chatReq[p].state,
                                   chatReq[p].message)
     IN /\ objects' = heap.objects
        /\ arrays' = heap.arrays
  /\ chatPc' = [chatPc EXCEPT ![p] = "generate"]
  /\ UNCHANGED << conversationStates, chatReq, chatLog, chats, processed >>
  /\ UNCHANGED << hookVars, checkVars >>

\* generateStageResponse returns; processConversation ends; the handler sends
\* the patient's message with chatService.sendMessage
ChatGenerate(p, aiResponse) ==
  /\ chatPc[p] = "generate"
  /\ LET aiResult == EndConversation(Heap(objects, arrays), chatReq[p].state,
                                     chatReq[p].message, aiResponse)
     IN /\ objects' = aiResult.heap.objects
        /\ arrays' = aiResult.heap.arrays
        /\ chatReq' = [chatReq EXCEPT
                         ![p].newState = aiResult.ref,
                         ![p].response = aiResponse,
                         ![p].shouldShowModal =
                           aiResult.heap.objects[aiResult.ref].stage = FORM_MODAL]
  /\ chatLog' = Insert(chatLog, [sender_type |-> "patient",
                                 message_text |-> chatReq[p].message])
  /\ chatPc' = [chatPc EXCEPT ![p] = "save"]
  /\ UNCHANGED << conversationStates, chats, processed >>
  /\ UNCHANGED << hookVars, checkVars >>

\* saveConversationState(sessionId, aiResult.newState), the AI response sent
\* as system message, the JSON answer
ChatSave(p) ==
  /\ chatPc[p] = "save"
  /\ conversationStates' = chatReq[p].newState
  /\ chatLog' = Insert(chatLog, [sender_type |-> "system",
                                 message_text |-> chatReq[p].response])
  /\ processed' = processed + 1
  /\ chatPc' = [chatPc EXCEPT ![p] = "idle"]
  /\ chatReq' = [chatReq EXCEPT ![p] = NullReq]
  /\ UNCHANGED << objects, arrays, chats >>
  /\ UNCHANGED << hookVars, checkVars >>

InitChat ==
  /\ HookStart(0)
  /\ \E k \in 0..Len(ChatScript) : ChatStart(k)
  /\ CheckStart

NextChat ==
  \/ \E p \in Procs, message \in ChatMessages : ChatReceive(p, message)
  \/ \E p \in Procs : ChatInitialize(p)
  \/ \E p \in Procs : ChatProcess(p)
  \/ \E p \in Procs, aiResponse \in AIResponses : ChatGenerate(p, aiResponse)
  \/ \E p \in Procs : ChatSave(p)

SpecChat == InitChat /\ [][NextChat]_vars

\* ai-chat requests one at a time: a request starts when no other is in progress
ChatReceiveSeq(p, message) ==
  /\ \A q \in Procs : chatPc[q] = "idle"
  /\ ChatReceive(p, message)

NextChatSeq ==
  \/ \E p \in Procs, message \in ChatMessages : ChatReceiveSeq(p, message)
  \/ \E p \in Procs : ChatInitialize(p)
  \/ \E p \in Procs : ChatProcess(p)
  \/ \E p \in Procs, aiResponse \in AIResponses : ChatGenerate(p, aiResponse)
  \/ \E p \in Procs : ChatSave(p)

SpecChatSeq == InitChat /\ [][NextChatSeq]_vars

\* ---------------------------------------------------------------- keywords
\* the languages a session can hold, and one that has no keyword list
CheckLanguages == SupportedLanguages \cup {"fr"}

\* every keyword on its own, texts with two keywords, with capitals, with a
\* keyword inside a sentence, and without any keyword
EmergencyTexts ==
  UNION { { emergencyKeywords(language)[i] :
              i \in 1..Len(emergencyKeywords(language)) } :
          language \in SupportedLanguages }
  \cup { <<"hello">>, <<"EMERGENCY">>, <<"Bleeding", "and", "dying">>,
         <<"kasala", "and", "I", "dey", "die">>,
         <<"I", "have", "chest", "pain", "now">> }

\* a call checkForEmergency(text, language)
CheckForEmergency(text, language) ==
  /\ emergencyArgs' = [text |-> text, language |-> language]
  /\ emergencyCheck' = checkForEmergency(text, language)
  /\ UNCHANGED << hookVars, chatVars >>

InitCheck ==
  /\ HookStart(0)
  /\ ChatStart(0)
  /\ CheckStart

NextCheck ==
  \E text \in EmergencyTexts, language \in CheckLanguages :
    CheckForEmergency(text, language)

SpecCheck == InitCheck /\ [][NextCheck]_vars

TypeOK ==
  /\ pc \in [Procs -> {"idle", "getSession", "createSession",
                       "markProcessed", "update", "respond"}]
  /\ delivered \in 0..MaxDeliveries
  /\ returned \subseteq Ids


\* ---------------------------------------------------------------- properties
Chain ==
  << INITIAL, LANGUAGE_SELECTION, COLLECTING_DEMOGRAPHICS, COLLECTING_SYMPTOMS,
     ASSESSING_SEVERITY, PROVIDER_MATCHING, APPOINTMENT_BOOKING, COMPLETED >>

InChain(stage) == \E i \in 1..Len(Chain) : Chain[i] = stage

Rank(stage) == CHOOSE i \in 1..Len(Chain) : Chain[i] = stage

\* the stored session of the user
Stored == getSessionByPhone(sessions, Phone)

\* number of dedup markers written for a message id
MarkerRows(id) ==
  { ch \in BagToSet(history) : ch.direction = "incoming" /\ ch.messageId = id }

AtMostOneMarker(id) ==
  /\ Cardinality(MarkerRows(id)) <= 1
  /\ \A ch \in MarkerRows(id) : CopiesIn(ch, history) = 1

ExactlyOneMarker(id) == AtMostOneMarker(id) /\ MarkerRows(id) # {}

IsText(messageData) == ~messageData.isButtonReply /\ ~messageData.isListReply

\* the delivery in slot p has awaited all its session updates
Settled(p) == pc[p] = "respond"

\* C1: when two deliveries of the same payload are processed concurrently, the
\* state machine runs only once for it: at most one dedup marker (inbound
\* record) is ever written for a message id of a user.
C1_DuplicateRunsOnce == \A id \in Ids : AtMostOneMarker(id)

\* C2: when processWebhook is called again with a payload whose first call has
\* returned, the state machine has run exactly once for that message (one
\* marker), and the second call does not get past the dedup check, so it
\* changes neither the session nor the history.
C2_SequentialRedeliveryIsNoOp ==
  /\ \A id \in returned :
       issued[id] \in ContentPayloads =>
         /\ ExactlyOneMarker(id)
         /\ \A p \in Procs : pc[p] # "idle" => msg[p].messageId # id
  /\ \A id \in skipped : id \in returned /\ ExactlyOneMarker(id)

C2_Witness ==
  /\ \E id \in skipped : issued[id] \in ContentPayloads /\ ExactlyOneMarker(id)
  /\ \A p \in Procs : pc[p] = "idle"

\* C3: absent an emergency, no step moves the stage of a session to an earlier
\* stage of the chain INITIAL < ... < COMPLETED.
C3_StageNeverRegresses ==
  [][\A old \in sessions, new \in sessions' :
       (old.id = new.id /\ InChain(old.conversationState)
                        /\ InChain(new.conversationState))
         => Rank(new.conversationState) >= Rank(old.conversationState)]_vars

\* C4: from every starting stage, a text message containing an emergency
\* keyword of the session's language leaves the session in EMERGENCY_DETECTED
\* with an emergency reply.
C4_EmergencyFromEveryStage ==
  \A p \in Procs :
    ( /\ Settled(p)
      /\ IsText(msg[p])
      /\ checkForEmergency(msg[p].original,
                           session[p].preferredLanguage).isEmergency )
    => /\ response[p].type = "emergency"
       /\ Stored.conversationState = EMERGENCY_DETECTED

\* C5: once the stage is EMERGENCY_DETECTED or COMPLETED, no step changes it.
C5_TerminalStagesAbsorb ==
  [][\A old \in sessions, new \in sessions' :
       (old.id = new.id
        /\ old.conversationState \in {EMERGENCY_DETECTED, COMPLETED})
         => new.conversationState = old.conversationState]_vars

PermittedEdge(from, to) ==
  \/ to = EMERGENCY_DETECTED
  \/ from = COLLECTING_SYMPTOMS /\ to = COLLECTING_SYMPTOMS
  \/ /\ InChain(from) /\ InChain(to)
     /\ Rank(to) = Rank(from) + 1

\* C6: every change of a session's stage follows a permitted edge: the next
\* stage of the chain or an edge into EMERGENCY_DETECTED.
C6_OnlyPermittedEdges ==
  [][\A old \in sessions, new \in sessions' :
       (old.id = new.id /\ new.conversationState # old.conversationState)
         => PermittedEdge(old.conversationState, new.conversationState)]_vars

\* C7: in COLLECTING_SYMPTOMS a session that holds one symptom from an earlier
\* message and receives a message with exactly one more symptom keyword
\* leaves COLLECTING_SYMPTOMS (the count is cumulative).
C7_CumulativeSymptomCount ==
  \A p \in Procs :
    ( /\ Settled(p)
      /\ IsText(msg[p])
      /\ session[p].conversationState = COLLECTING_SYMPTOMS
      /\ Len(session[p].triageData.symptoms) = 1
      /\ Len(extractSymptoms(msg[p].original)) = 1
      /\ ~checkForEmergency(msg[p].original,
                            session[p].preferredLanguage).isEmergency )
    => Stored.conversationState # COLLECTING_SYMPTOMS

\* the delivery in slot p is a text without symptom or emergency keyword for
\* a session in COLLECTING_SYMPTOMS that holds fewer than 2 symptoms
NonMatchingInSymptoms(p) ==
  /\ IsText(msg[p])
  /\ session[p].conversationState = COLLECTING_SYMPTOMS
  /\ Len(session[p].triageData.symptoms) < 2
  /\ Len(extractSymptoms(msg[p].original)) = 0
  /\ ~checkForEmergency(msg[p].original,
                        session[p].preferredLanguage).isEmergency

\* C8: a session in COLLECTING_SYMPTOMS with fewer than 2 symptoms stays in
\* COLLECTING_SYMPTOMS after a text without symptom or emergency keyword, and
\* the reply is the follow-up question.
C8_BelowThresholdStays ==
  \A p \in Procs :
    (Settled(p) /\ NonMatchingInSymptoms(p))
    => /\ Stored.conversationState = COLLECTING_SYMPTOMS
       /\ response[p] = generateFollowUpQuestion(session[p].preferredLanguage)

C8_Witness ==
  \E p \in Procs :
    /\ Settled(p) /\ NonMatchingInSymptoms(p)
    /\ Len(session[p].triageData.symptoms) = 1

\* the delivery in slot p has had an updateSession with a stage applied
CommittedStage(p) ==
  /\ pc[p] \in {"update", "respond"}
  /\ LET all == manageConversation(msg[p], session[p]).updates
     IN \E i \in 1..(Len(all) - Len(pending[p])) :
          "conversationState" \in DOMAIN all[i]

\* C9: two distinct messages of one user never both commit a stage
\* transition computed from the same read of the session.
C9_NoLostUpdate ==
  \A p, q \in Procs :
    ( /\ p # q
      /\ msg[p].messageId # NoId /\ msg[q].messageId # NoId
      /\ msg[p].messageId # msg[q].messageId
      /\ session[p] = session[q] )
    => ~(CommittedStage(p) /\ CommittedStage(q))

\* C10: there is at most one session row per phone number, also when first
\* messages of a new user race through getOrCreateSession.
C10_OneSessionPerUser ==
  Cardinality({ s \in sessions : s.phoneNumber = Phone }) <= 1

\* two first deliveries raced: one INSERT succeeded, the other was rejected
C10_Witness ==
  /\ Cardinality(sessions) = 1
  /\ [to |-> Phone, type |-> "error"] \in BagToSet(outbox)

\* the delivery in slot p holds the session getOrCreateSession returned to it
HoldsSession(p) == pc[p] \in {"markProcessed", "update", "respond"}

\* C11: when calls of getOrCreateSession for the same phone number interleave,
\* every call returns the one stored session of that phone number and no call
\* fails (no createSession ends in an error).
C11_ConcurrentGetOrCreateIsSafe ==
  /\ \A p \in Procs :
       HoldsSession(p) => /\ session[p].id = Stored.id
                          /\ session[p].phoneNumber = msg[p].phoneNumber
  /\ \A r \in BagToSet(results) : r.path # "createFailed"

\* C12: isMessageProcessed(id, phone) is false as long as no processWebhook
\* call has carried the id, and true from the moment a call that carried it
\* as a content message has returned.
C12_ProcessedOnceFirstCallReturned ==
  \A id \in Ids :
    /\ issued[id] = NullPayload =>
         ~isMessageProcessed(history, sessions, id, Phone)
    /\ (id \in returned /\ issued[id] \in ContentPayloads) =>
         isMessageProcessed(history, sessions, id, Phone)

\* C13: for a content message with an id, once manageConversation has started
\* for it the dedup marker of the id is in the history, exactly once, and no
\* later step (a failing manageConversation included) removes it.
C13_MarkerOnceBeforeStateMachine ==
  /\ \A p \in Procs :
       (pc[p] \in {"update", "respond"} /\ msg[p].messageId # NoId)
         => ExactlyOneMarker(msg[p].messageId)
  /\ \A id \in returned :
       MarkerRows(id) # {} => ExactlyOneMarker(id)

\* the result r is the one the step adds to results
NewResult(r) == CopiesIn(r, results') > CopiesIn(r, results)

\* C14: a call in which isMessageProcessed, getOrCreateSession or
\* markWebhookMessageProcessed throws ends with an error for the caller of
\* processWebhook, and writes no dedup marker.
C14_StoreFailureFailsTheCall ==
  [][\A r \in BagToSet(results') :
       (NewResult(r) /\ r.path = "storeFailure")
         => /\ r.status = "error"
            /\ history' = history]_vars

\* the updateSession the delivery in slot p awaits is one of performRiskAssessment
InRiskAssessment(p) ==
  /\ pc[p] = "update"
  /\ IsText(msg[p])
  /\ session[p].conversationState \in {COLLECTING_SYMPTOMS, ASSESSING_SEVERITY}
  /\ LET risk == performRiskAssessment(session[p]).updates
     IN \E i \in 1..Len(risk) : risk[i] = Head(pending[p])

\* C15: when performRiskAssessment throws while a message is handled, the
\* reply is a text asking to try again and the stored stage is the stage the
\* session had before the message.
C15_FailedAssessmentKeepsStage ==
  [][\A p \in Procs :
       (InRiskAssessment(p) /\ UpdateFails(p))
         => /\ response'[p].type = "text"
            /\ Stored'.conversationState = session[p].conversationState]_vars

\* C16: a delivery of a payload without type, without phone number or with a
\* phone number of the wrong format ends with an error for the caller and
\* touches neither the sessions, the history, the outbox nor the dedup check.
C16_InvalidPayloadRejectedFirst ==
  [][\A p \in Procs, payload \in InvalidPayloads :
       Deliver(p, payload)
         => /\ results' = Insert(results, Result("error", "invalid", payload.id))
            /\ UNCHANGED << sessions, history, outbox, pc, skipped >>]_vars

C16_Witness ==
  /\ \E r \in BagToSet(results) : r.path = "invalid" /\ r.status = "error"
  /\ sessions = {} /\ history = EmptyBag /\ outbox = EmptyBag

\* C17: a delivery of a status payload (delivered, read, sent, failed) returns
\* { status: 'ok' } and touches neither the sessions, the history (markers
\* included), the outbox nor the dedup check.
C17_StatusPayloadIsNoOp ==
  [][\A p \in Procs, payload \in StatusPayloads :
       Deliver(p, payload)
         => /\ results' = Insert(results, Result("ok", "status", payload.id))
            /\ UNCHANGED << sessions, history, outbox, pc, skipped >>]_vars

C17_Witness ==
  /\ \E r \in BagToSet(results) :
       r.path = "status" /\ r.status = "ok" /\ r.messageId # NoId
  /\ \E r \in BagToSet(results) :
       r.path = "status" /\ r.status = "ok" /\ r.messageId = NoId
  /\ outbox = EmptyBag

\* the stored row with the given id
RowOf(table, sessionId) == CHOOSE row \in table : row.id = sessionId

\* C18: updateSession(sessionId, changes) stores every field of changes,
\* leaves every other field as it was, and refreshes updatedAt on every call.
C18_UpdatePersistsEveryField ==
  [][\A p \in Procs :
       UpdateSession(p) =>
         LET changes == Head(pending[p])
             old == RowOf(sessions, session[p].id)
             new == RowOf(sessions', session[p].id)
         IN /\ \A f \in DOMAIN changes :
                 f \in DOMAIN new /\ new[f] = changes[f]
            /\ \A f \in DOMAIN old \ (DOMAIN changes \cup {"updatedAt"}) :
                 new[f] = old[f]
            /\ new.updatedAt = old.updatedAt + 1]_vars

\* the ways a call can end after a state-machine, collaborator or send failure
\* or without any failure
AbsorbedPaths == {"replied", "sendFailed", "historyFailed"}

\* C19: every call that handled a valid, non-duplicate content message
\* returns normally and has put a reply for the user on the channel, also
\* when the state machine or a send attempt failed.
C19_AlwaysSomeReply ==
  [][\A r \in BagToSet(results') :
       (NewResult(r) /\ r.path \in AbsorbedPaths)
         => /\ r.status = "success"
            /\ outbox' # outbox]_vars

C21_NoSendInsidePipeline == [][outbox' = outbox]_vars

\* the session the delivery in slot p holds was created by this delivery
CreatedFor(p) == session[p].id = generateSessionId(p)

\* the delivery in slot p is a text without an English emergency keyword
PlainText(p) ==
  /\ IsText(msg[p])
  /\ ~checkForEmergency(msg[p].original, "en").isEmergency

\* C22: a text without emergency keyword from a phone number without session
\* creates a session in INITIAL with language en and empty user and triage
\* data, is answered with the welcome message and leaves the stored session
\* in LANGUAGE_SELECTION.
C22_FirstContactWelcomes ==
  \A p \in Procs :
    (Settled(p) /\ CreatedFor(p) /\ PlainText(p))
      => /\ session[p].conversationState = INITIAL
         /\ session[p].preferredLanguage = "en"
         /\ session[p].userData = [age |-> 0, gender |-> None]
         /\ session[p].triageData.symptoms = <<>>
         /\ ~session[p].triageData.assessmentCompleted
         /\ response[p].type = "welcome"
         /\ Stored.id = session[p].id
         /\ Stored.conversationState = LANGUAGE_SELECTION
         /\ Stored.preferredLanguage = "en"

C22_Witness ==
  \E p \in Procs :
    /\ Settled(p) /\ CreatedFor(p) /\ PlainText(p)
    /\ msg[p].messageId # NoId

\* the reply id of the structured reply in slot p
ReplyIdOf(p) ==
  IF msg[p].buttonId # <<>> THEN msg[p].buttonId ELSE msg[p].listId

\* C23: in PROVIDER_MATCHING a reply provider_<id> leaves the stored session
\* in APPOINTMENT_BOOKING with selectedProvider set to the provider, and a
\* text leaves the stage at PROVIDER_MATCHING.
C23_ProviderSelectionPersisted ==
  \A p \in Procs :
    (Settled(p) /\ session[p].conversationState = PROVIDER_MATCHING)
      => /\ (~IsText(msg[p]) /\ ReplyIdOf(p)[1] = "provider_")
              => /\ Stored.conversationState = APPOINTMENT_BOOKING
                 /\ "selectedProvider" \in DOMAIN Stored
                 /\ Stored["selectedProvider"] = ReplyIdOf(p)[2]
         /\ IsText(msg[p]) => Stored.conversationState = PROVIDER_MATCHING

\* the structured reply in slot p matches none of the global patterns
NoGlobalPattern(p) ==
  /\ ~IsText(msg[p])
  /\ ReplyIdOf(p)[1] \notin {"lang_", "provider_", "find_hospitals",
                              "call_emergency"}

\* C24: in APPOINTMENT_BOOKING every inbound message, text or structured
\* reply (the offered buttons book_now, call_provider, get_directions
\* included), is answered with the booking confirmation and leaves the stored
\* session in COMPLETED.  Stated for the messages no global pattern claims.
C24_AnyInputCompletesBooking ==
  \A p \in Procs :
    ( /\ Settled(p)
      /\ session[p].conversationState = APPOINTMENT_BOOKING
      /\ IsText(msg[p]) \/ NoGlobalPattern(p) )
      => /\ response[p].message = "appointment_booked"
         /\ Stored.conversationState = COMPLETED

\* the message in slot p taken as plain input, not as a structured reply
AsStageInput(p) ==
  [msg[p] EXCEPT !.isButtonReply = FALSE, !.isListReply = FALSE]

\* C25: a structured reply that matches no global pattern is handled by the
\* handler of the session's current stage, as any input of that stage is.
C25_UnknownReplyFallsThrough ==
  \A p \in Procs :
    (Settled(p) /\ NoGlobalPattern(p))
      => LET out == manageConversation(AsStageInput(p), session[p])
         IN /\ response[p] = out.response
            /\ Stored = ApplyAll(session[p], out.updates)

\* the delivery in slot p is a text that reaches the symptom threshold for a
\* session in COLLECTING_SYMPTOMS
ReachesThreshold(p) ==
  /\ IsText(msg[p])
  /\ session[p].conversationState = COLLECTING_SYMPTOMS
  /\ ~checkForEmergency(msg[p].original,
                        session[p].preferredLanguage).isEmergency
  /\ Len(extractSymptoms(msg[p].original)) >= 2

\* C26: after a message that reaches the symptom threshold the stored triage
\* data holds the symptoms of the message and the assessment result.
C26_AssessmentKeepsSymptoms ==
  \A p \in Procs :
    (Settled(p) /\ ReachesThreshold(p))
      => /\ Stored.triageData.riskScore = assessment.riskScore
         /\ Stored.triageData.severity = assessment.severity
         /\ Stored.triageData.recommendation = assessment.recommendation
         /\ Stored.triageData.likelyConditions = assessment.likelyConditions
         /\ Stored.triageData.symptoms = extractSymptoms(msg[p].original)

\* C27: a stored session in PROVIDER_MATCHING, APPOINTMENT_BOOKING or
\* COMPLETED holds a completed assessment (severity and riskScore set).
C27_AssessmentBeforeProviders ==
  \A s \in sessions :
    s.conversationState \in {PROVIDER_MATCHING, APPOINTMENT_BOOKING, COMPLETED}
      => /\ s.triageData.assessmentCompleted
         /\ s.triageData.severity # None
         /\ s.triageData.riskScore > 0

\* C28: the preferredLanguage of every stored session is one of en, pcm, yo,
\* ha, ig.
C28_LanguageIsSupported ==
  \A s \in sessions : s.preferredLanguage \in {"en", "pcm", "yo", "ha", "ig"}

\* number of rows of the history with the given session and direction
RECURSIVE CountRows(_, _, _, _)
CountRows(log, rows, sessionId, direction) ==
  IF rows = {} THEN 0
  ELSE LET ch == CHOOSE r \in rows : TRUE
       IN (IF ch.sessionId = sessionId /\ ch.direction = direction
             THEN CopiesIn(ch, log) ELSE 0)
          + CountRows(log, rows \ {ch}, sessionId, direction)

Records(log, sessionId, direction) ==
  CountRows(log, BagToSet(log), sessionId, direction)

\* C29: when a call ends after the state machine ran and the reply was sent,
\* the history of the session holds exactly one inbound record of the message
\* and the call has added exactly one outbound record, with or without
\* message id.
C29_OneInboundOneOutbound ==
  [][\A p \in Procs :
       Respond(p) =>
         /\ Records(history', session[p].id, "outgoing")
              = Records(history, session[p].id, "outgoing") + 1
         /\ CopiesIn(Marker(session[p].id, msg[p]), history') = 1]_vars

\* content payloads without message id
NoIdPayloads == { payload \in ContentPayloads : payload.id = NoId }

\* C30: a content message without message id is handed to the state machine
\* by every delivery, whatever was delivered before: the delivery makes no
\* dedup check, is never skipped, and no marker is ever written for it.
C30_NoIdAlwaysRuns ==
  [][/\ \A p \in Procs, payload \in NoIdPayloads :
          Deliver(p, payload)
            => /\ pc'[p] \in {"createSession", "update", "respond"}
               /\ msg'[p] = parseIncomingMessage(payload)
               /\ skipped' = skipped /\ results' = results
               /\ history' = history
     /\ \A ch \in BagToSet(history') :
          ch.direction = "incoming" => ch.messageId # NoId]_vars

\* two deliveries without message id were both answered, no marker was written
C30_Witness ==
  /\ CopiesIn(Result("success", "replied", NoId), results) = 2
  /\ \A ch \in BagToSet(history) : ch.direction # "incoming"
  /\ \A p \in Procs : pc[p] = "idle"

FlowTexts ==
  { <<"hello">>,
    <<"Yoruba", "please">>,
    <<"hausa">>,
    <<"igbo", "or", "english">>,
    <<"25", "male">>,
    <<"female">>,
    <<"0", "or", "30">>,
    <<"I", "am", "200">> }

FlowPayloads ==
  { Payload(NoId, Phone, "text", t, <<>>) : t \in FlowTexts }
  \cup { Payload(1, Phone, "text", <<"hello">>, <<>>),
         Payload(NoId, Phone, "button_reply", <<>>, <<"lang_", "yo">>) }

\* deliveries one at a time, over the free texts
NextFlow ==
  \/ \E p \in Procs, payload \in FlowPayloads : DeliverSeq(p, payload)
  \/ \E p \in Procs : GetSession(p)
  \/ \E p \in Procs : CreateSession(p)
  \/ \E p \in Procs : MarkProcessed(p)
  \/ \E p \in Procs : UpdateSession(p)
  \/ \E p \in Procs : Respond(p)

SpecFlow == Init /\ [][NextFlow]_vars

\* the code of the first language name, in the order english, pidgin, yoruba,
\* hausa, igbo, that the lowercased text contains; en when it contains none
NamedLanguage(text) ==
  LET lower == ToLowerCase(text)
      has(name) == Includes(lower, << name >>)
  IN IF has("english") THEN "en"
     ELSE IF has("pidgin") THEN "pcm"
     ELSE IF has("yoruba") THEN "yo"
     ELSE IF has("hausa") THEN "ha"
     ELSE IF has("igbo") THEN "ig"
     ELSE "en"

\* C32: a free text in LANGUAGE_SELECTION stores the code of the first
\* language name (order english, pidgin, yoruba, hausa, igbo) the lowercased
\* text contains, en when it contains none, stores COLLECTING_DEMOGRAPHICS and
\* is answered with the demographics prompt in that language.
C32_LanguageFromFreeText ==
  \A p \in Procs :
    ( /\ Settled(p) /\ IsText(msg[p])
      /\ session[p].conversationState = LANGUAGE_SELECTION )
      => /\ Stored.preferredLanguage = NamedLanguage(msg[p].original)
         /\ Stored.conversationState = COLLECTING_DEMOGRAPHICS
         /\ response[p].type = "text"
         /\ response[p].message = "demographics_prompt"
         /\ response[p].lang = NamedLanguage(msg[p].original)

\* a text in LANGUAGE_SELECTION naming igbo before english was answered in
\* English
C32_Witness ==
  \E p \in Procs :
    /\ Settled(p)
    /\ session[p].conversationState = LANGUAGE_SELECTION
    /\ msg[p].original = <<"igbo", "or", "english">>
    /\ Stored.preferredLanguage = "en"
    /\ response[p].lang = "en"

\* the demographics the text of slot p yields on its own
Extracted(p) == extractDemographics(msg[p].original, EmptyUserData)

\* C33: every text in COLLECTING_DEMOGRAPHICS leaves the stored session in
\* COLLECTING_SYMPTOMS, whether or not an age or a gender was extracted; a
\* field the text yields is stored, and a field it does not yield keeps the
\* value extracted earlier.
C33_DemographicsAlwaysAdvance ==
  \A p \in Procs :
    ( /\ Settled(p) /\ IsText(msg[p])
      /\ session[p].conversationState = COLLECTING_DEMOGRAPHICS )
      => /\ Stored.conversationState = COLLECTING_SYMPTOMS
         /\ Stored.userData.age =
              IF Extracted(p).age # 0 THEN Extracted(p).age
              ELSE session[p].userData.age
         /\ Stored.userData.gender =
              IF Extracted(p).gender # None THEN Extracted(p).gender
              ELSE session[p].userData.gender
         /\ Stored.userData.age \in 0..120

\* a session that already held age 25 got the text "female": the age is kept,
\* the gender replaced, the stage advanced
C33_Witness ==
  \E p \in Procs :
    /\ Settled(p)
    /\ session[p].conversationState = COLLECTING_DEMOGRAPHICS
    /\ session[p].userData = [age |-> 25, gender |-> "male"]
    /\ msg[p].original = <<"female">>
    /\ Stored.userData = [age |-> 25, gender |-> "female"]
    /\ Stored.conversationState = COLLECTING_SYMPTOMS

\* the language the specified tie-break gives: the first language, in the
\* order pidgin, yoruba, igbo, hausa, whose score is the highest; english when
\* every score is zero
FirstHighest(text) ==
  LET lowerText == ToLowerCase(text)
      scores == [i \in 1..Len(LANGUAGE_PATTERNS) |->
                   Score(LANGUAGE_PATTERNS[i], lowerText)]
      best == CHOOSE i \in 1..Len(scores) :
                /\ \A j \in 1..Len(scores) : scores[j] <= scores[i]
                /\ \A j \in 1..(i - 1) : scores[j] < scores[i]
  IN IF scores[best] > 0 THEN LANGUAGE_PATTERNS[best].lang ELSE "english"

\* C34: detectLanguage returns the language with the highest score, english
\* when all scores are zero, and on a tie for the highest score the tied
\* language that comes first in the order pidgin, yoruba, igbo, hausa; seen at
\* the language processConversation writes into the state it was given.
C34_DetectLanguageTieBreak ==
  \A p \in Procs :
    chatPc[p] = "generate"
      => objects[chatReq[p].state].language = FirstHighest(chatReq[p].message)

\* the keyword occurs in the text, whatever the case of either
Occurs(keyword, text) == Includes(ToLowerCase(text), ToLowerCase(keyword))

\* C35: checkForEmergency(text, language) reports isEmergency with the first
\* keyword, in list order, of the language's list that occurs in the text
\* whatever its case, and with confidence 0.9 (9 tenths); it reports no
\* emergency when no keyword of that list occurs.
C35_FirstKeywordWins ==
  emergencyArgs # NoArgs =>
    LET keywords == emergencyKeywords(emergencyArgs.language)
        hits == { i \in 1..Len(keywords) :
                    Occurs(keywords[i], emergencyArgs.text) }
    IN IF hits = {}
         THEN ~emergencyCheck.isEmergency
         ELSE /\ emergencyCheck.isEmergency
              /\ emergencyCheck.confidence = 9
              /\ \E i \in hits :
                   /\ \A j \in hits : i <= j
                   /\ emergencyCheck.keyword = keywords[i]

\* "Bleeding and dying" in English: dying comes first in the list and is the
\* keyword reported, though bleeding comes first in the text
C35_Witness ==
  /\ emergencyArgs = [text |-> <<"Bleeding", "and", "dying">>, language |-> "en"]
  /\ emergencyCheck.isEmergency
  /\ emergencyCheck.keyword = <<"dying">>

\* the stage of the ConversationState the Map holds for the chat session
StoredStage == objects[conversationStates].stage

StageRank(stage) ==
  CHOOSE i \in 1..Len(ConversationStage) : ConversationStage[i] = stage

\* C36: every ai-chat request that saves its result while the stored stage is
\* one of GREETING to DIAGNOSIS advances the stored stage by one step, also
\* when another request of the same chat session read the state before this
\* one saved: after n saves the stage has advanced n steps.
C36_NoLostStageAdvance ==
  [][\A p \in Procs :
       ( /\ ChatSave(p)
         /\ StageRank(StoredStage) <= StageRank(DIAGNOSIS) )
         => StageRank(StoredStage') = StageRank(StoredStage) + 1]_vars

\* C37: processConversation moves the stage of the conversation it is given
\* forward in the order of ConversationStage and by at most one stage per
\* message; it leaves DOCTOR_CONFIRMATION only on an affirmative message; it
\* never leaves FORM_MODAL, where every message has shouldShowModal true.
C37_ChatStageMovesForward ==
  [][\A p \in Procs :
       (\E aiResponse \in AIResponses : ChatGenerate(p, aiResponse)) =>
         LET old == objects[chatReq[p].state].stage
             new == objects'[chatReq'[p].newState].stage
         IN /\ StageRank(new) - StageRank(old) \in {0, 1}
            /\ (old = DOCTOR_CONFIRMATION /\ new # old)
                 => wantsDoctor(chatReq[p].message)
            /\ old = FORM_MODAL
                 => new = FORM_MODAL /\ chatReq'[p].shouldShowModal
            /\ chatReq'[p].shouldShowModal <=> new = FORM_MODAL]_vars

\* a second message, not an affirmative one, was handled in FORM_MODAL and has
\* shouldShowModal true
C37_Witness ==
  \E p \in Procs :
    /\ chatPc[p] = "save"
    /\ processed = 1
    /\ objects[chatReq[p].state].stage = FORM_MODAL
    /\ ~wantsDoctor(chatReq[p].message)
    /\ chatReq[p].shouldShowModal

\* C38: a message handled in SYMPTOM_CLARIFICATION moves the conversation to
\* DIAGNOSIS, so that a conversation which entered SYMPTOM_CLARIFICATION
\* through SYMPTOM_INQUIRY is there for one message only; and every
\* conversation state in DIAGNOSIS or later has at least 2 symptoms.
C38_ClarificationOnce ==
  /\ \A p \in Procs :
       ( /\ chatPc[p] = "save"
         /\ objects[chatReq[p].state].stage = SYMPTOM_CLARIFICATION )
         => objects[chatReq[p].newState].stage = DIAGNOSIS
  /\ \A o \in 1..Len(objects) :
       StageRank(objects[o].stage) >= StageRank(DIAGNOSIS)
         => Len(arrays[objects[o].symptoms]) >= 2

\* the chat was in SYMPTOM_INQUIRY, one message moved it to
\* SYMPTOM_CLARIFICATION, the next one to DIAGNOSIS with two symptoms
C38_Witness ==
  \E p \in Procs :
    /\ chatPc[p] = "save"
    /\ processed = 1
    /\ objects[chatReq[p].state].stage = SYMPTOM_CLARIFICATION
    /\ objects[chatReq[p].newState].stage = DIAGNOSIS
    /\ Len(arrays[objects[chatReq[p].newState].symptoms]) = 2
    /\ \E o \in 1..Len(objects) : objects[o].stage = SYMPTOM_INQUIRY

\* the delivery in slot p is a structured reply that is neither a language
\* nor a provider selection: find_hospitals, call_emergency, or an id that
\* matches no pattern
FrameReply(p) ==
  /\ ~IsText(msg[p])
  /\ ReplyIdOf(p)[1] \notin {"lang_", "provider_"}

\* C39: find_hospitals, call_emergency and replies matching no pattern change
\* no field of the stored session, in any stage: when the reply is answered
\* the stored row is the session as getOrCreateSession returned it.
C39_InformationalRepliesChangeNothing ==
  \A p \in Procs :
    (Settled(p) /\ FrameReply(p))
      => /\ Stored.id = session[p].id
         /\ Stored.conversationState = session[p].conversationState
         /\ Stored.preferredLanguage = session[p].preferredLanguage
         /\ Stored.userData = session[p].userData
         /\ Stored.triageData = session[p].triageData
         /\ Stored.updatedAt = session[p].updatedAt

\* find_hospitals was answered for a session in COLLECTING_SYMPTOMS
C39_Witness ==
  \E p \in Procs :
    /\ Settled(p)
    /\ ReplyIdOf(p) = <<"find_hospitals">>
    /\ session[p].conversationState = COLLECTING_SYMPTOMS
    /\ response[p].message = "nearby_hospitals"
    /\ Stored.conversationState = COLLECTING_SYMPTOMS

====
